---- MODULE Spec2Model ----
(***************************************************************************)
(* Model of docq/manage_assistants.py: the assistants tables of the global *)
(* SQLite file and of one SQLite file per organisation, the operations     *)
(* _init, create_or_update_assistant, get_assistant and list_assistants,   *)
(* and the default-assistant seeder, run by concurrent callers.  Every SQL *)
(* statement is one atomic step (SQLite serialises statements on a file);  *)
(* the Python code between two statements belongs to the later step.       *)
(***************************************************************************)
EXTENDS Integers, Sequences, FiniteSets, TLC

(* ------------------------------ bounds --------------------------------- *)

\* calls that may be started in one behaviour
MaxCalls == 3

\* calls that may be started while another call is in progress
MaxOverlap == 1

\* the wall clock is read at the ticks 0..MaxClock
MaxClock == 1

\* assistant ids 1..MaxId are passed to updates and written into scoped ids
MaxId == 1

\* row ids 0..MaxKeyId are written into the scoped ids that are split again
MaxKeyId == 60

\* ChatMessage objects that a chat history may hold
MaxMsgs == 2

\* calls that build a prompt template from the same Assistant and chat history
MaxBuilds == 2

\* the callers that run operations concurrently; a call runs on the first free one
CallerOrder == <<"c1", "c2">>

Callers == {CallerOrder[i] : i \in 1..Len(CallerOrder)}

\* the organisations
OrgIds == {1, 2}

\* Python's None, for an Optional[int] argument
None == -1

\* the values passed as org_id
OrgInputs == {None} \cup OrgIds

(* ------------------------- strings, as characters ---------------------- *)

Digits == <<"0", "1", "2", "3", "4", "5", "6", "7", "8", "9">>

UpperCase == <<"A", "C", "E", "G", "H", "I", "K", "L", "M", "N", "P", "S", "T">>

LowerCase == <<"a", "c", "e", "g", "h", "i", "k", "l", "m", "n", "p", "s", "t">>

\* the characters of the strings the model computes with
Chars(s) ==
  CASE s = "global" -> <<"g", "l", "o", "b", "a", "l">>
    [] s = "org" -> <<"o", "r", "g">>
    [] s = "foo" -> <<"f", "o", "o">>
    [] s = "default" -> <<"d", "e", "f", "a", "u", "l", "t">>
    [] s = "SIMPLE_CHAT" -> <<"S", "I", "M", "P", "L", "E", "_", "C", "H", "A", "T">>
    [] s = "AGENT" -> <<"A", "G", "E", "N", "T">>
    [] s = "ASK" -> <<"A", "S", "K">>
    [] s = "Simple Chat" -> <<"S", "i", "m", "p", "l", "e", " ", "C", "h", "a", "t">>
    [] s = "Agent" -> <<"A", "g", "e", "n", "t">>
    [] s = "Ask" -> <<"A", "s", "k">>

\* str.upper() and str.lower() of one character
ToUpper(ch) ==
  IF \E i \in 1..Len(LowerCase) : LowerCase[i] = ch
  THEN UpperCase[CHOOSE i \in 1..Len(LowerCase) : LowerCase[i] = ch]
  ELSE ch

ToLower(ch) ==
  IF \E i \in 1..Len(UpperCase) : UpperCase[i] = ch
  THEN LowerCase[CHOOSE i \in 1..Len(UpperCase) : UpperCase[i] = ch]
  ELSE ch

\* str.capitalize(): first character upper case, the rest lower case
Capitalize(s) ==
  IF s = <<>> THEN s
  ELSE <<ToUpper(s[1])>> \o [i \in 1..(Len(s) - 1) |-> ToLower(s[i + 1])]

\* str(n) of a non-negative integer
RECURSIVE Str(_)
Str(n) == IF n < 10 THEN <<Digits[n + 1]>> ELSE Str(n \div 10) \o <<Digits[(n % 10) + 1]>>

\* str.split(sep): the parts between the separators
RECURSIVE Split(_, _)
Split(s, sep) ==
  IF s = <<>> THEN << <<>> >>
  ELSE LET rest == Split(Tail(s), sep)
       IN  IF Head(s) = sep
           THEN << <<>> >> \o rest
           ELSE << <<Head(s)>> \o Head(rest) >> \o Tail(rest)

IsDecimal(s) == s # <<>> /\ \A i \in 1..Len(s) : \E d \in 1..10 : Digits[d] = s[i]

RECURSIVE DecimalValue(_)
DecimalValue(s) ==
  IF s = <<>> THEN 0
  ELSE 10 * DecimalValue(SubSeq(s, 1, Len(s) - 1))
       + (CHOOSE d \in 0..9 : Digits[d + 1] = s[Len(s)])

\* WHERE id = ? with a text parameter: the column's INTEGER affinity converts a
\* text that is a decimal literal to its number; any other text equals no id
SqlIdEquals(rowId, text) == IsDecimal(text) /\ DecimalValue(text) = rowId

\* f"{scope}{id}", without the separator
ScopedId_NoSeparator(scope, id) == scope \o Str(id)

\* f"{scope}_{id}"
ScopedId(scope, id) == scope \o <<"_">> \o Str(id)

(* ------------------------------ the data ------------------------------- *)

\* the members of the enum AssistantType, name |-> value
AssistantType == [SIMPLE_CHAT |-> "Simple Chat", AGENT |-> "Agent", ASK |-> "Ask"]

TypeNames == DOMAIN AssistantType

\* AssistantType(value): the member with that value, "ValueError" when none has it
AssistantTypeOf(value) ==
  IF \E m \in TypeNames : Chars(AssistantType[m]) = value
  THEN CHOOSE m \in TypeNames : Chars(AssistantType[m]) = value
  ELSE "ValueError"

\* the three inserts of the seeder, in its order
Catalog ==
  << [name |-> "General Q&A", type |-> "SIMPLE_CHAT", archived |-> FALSE,
      system_prompt_template |-> "SIMPLE_CHAT_PERSONAS.default.system_message_content",
      user_prompt_template |-> "SIMPLE_CHAT_PERSONAS.default.user_prompt_template_content",
      llm_settings_collection_key |-> "azure_openai_with_local_embedding"],
     [name |-> "General Q&A Assistant", type |-> "ASK", archived |-> FALSE,
      system_prompt_template |-> "SIMPLE_CHAT_PERSONAS.elon-musk.system_message_content",
      user_prompt_template |-> "SIMPLE_CHAT_PERSONAS.elon-musk.user_prompt_template_content",
      llm_settings_collection_key |-> "azure_openai_with_local_embedding"],
     [name |-> "Elon Musk", type |-> "SIMPLE_CHAT", archived |-> FALSE,
      system_prompt_template |-> "ASK_PERSONAS.elon-musk.system_message_content",
      user_prompt_template |-> "ASK_PERSONAS.elon-musk.user_prompt_template_content",
      llm_settings_collection_key |-> "azure_openai_with_local_embedding"] >>

CatalogNames == {Catalog[i].name : i \in 1..Len(Catalog)}

\* the names in the WHERE clause of the seeder's SELECT
\* the seeder asking for two of the three names only
SeederSelectNames_TwoNames == {"General Q&A", "General Q&A Assistant"}

SeederSelectNames == {"General Q&A", "General Q&A Assistant", "Elon Musk"}

\* the field values callers pass to create_or_update_assistant
UserInputs ==
  { [name |-> "Test", type |-> "ASK", archived |-> TRUE,
     system_prompt_template |-> "s1", user_prompt_template |-> "u1",
     llm_settings_collection_key |-> "k1"],
    [name |-> "Test", type |-> "SIMPLE_CHAT", archived |-> TRUE,
     system_prompt_template |-> "s2", user_prompt_template |-> "u2",
     llm_settings_collection_key |-> "k2"],
    [name |-> "Elon Musk", type |-> "AGENT", archived |-> FALSE,
     system_prompt_template |-> "s2", user_prompt_template |-> "u2",
     llm_settings_collection_key |-> "k2"] }

\* the scoped ids callers pass to get_assistant
KeyInputs ==
  {ScopedId(Chars(s), i) : s \in {"global", "org", "foo"}, i \in 1..MaxId}
    \cup { Chars("global"),
           Chars("org") \o <<"_", "1", "_", "2">>,
           Chars("global") \o <<"_", "x">> }

\* Python's None, for an Optional[AssistantType] argument
NoType == "None"

\* the type filters callers pass to list_assistants
FilterInputs == {NoType, "ASK"}

(* ------------------------------ the files ------------------------------ *)

\* docq.support.store: one file for the global scope, one per organisation
get_sqlite_global_system_file == 0

get_sqlite_org_system_file(org_id) == org_id

Files == {get_sqlite_global_system_file} \cup {get_sqlite_org_system_file(o) : o \in OrgIds}

\* Python's truth value of an Optional[int]
Truthy(org_id) == org_id # None /\ org_id # 0

\* every call resolving the global file
get_assistants_sqlite_file_AlwaysGlobal(org_id) == get_sqlite_global_system_file

\* one file for all the organisations
get_assistants_sqlite_file_OneOrgFile(org_id) ==
  IF Truthy(org_id) THEN get_sqlite_org_system_file(1) ELSE get_sqlite_global_system_file

get_assistants_sqlite_file(org_id) ==
  IF Truthy(org_id) THEN get_sqlite_org_system_file(org_id)
  ELSE get_sqlite_global_system_file

(* ------------------------------ the state ------------------------------ *)

VARIABLES
  tableExists,  \* file |-> the file holds the table assistants
  rows,         \* file |-> the rows of assistants, in rowid order
  now,          \* the wall clock (UTC) when it was last read, in ticks of half a second
  proc,         \* caller |-> the frame of the call it is running
  last,         \* the frame of the call that has just returned or raised, Idle after any later step
  calls,        \* number of calls started
  overlaps,     \* number of calls started while another call was in progress
  origin,       \* history: file |-> for each row, the org_id argument of the call that inserted it
  issued,       \* history: file |-> the ids the successful INSERTs produced, in order
  prior,        \* history: file |-> for each row, its timestamps before its latest effective UPDATE
  afterSeed,    \* history: the global file is as a complete seeder run left it
  watch,        \* history: caller |-> no other caller wrote the global file since its seeder's SELECT
  raced,        \* history: caller |-> the call it runs, or has just ended, overlapped another UPDATE of its row
  connections,  \* number of sqlite3 connections that are open
  codec,        \* a (scope, id) pair, the scoped id written for it and the frame that split it
  heap,         \* ChatMessage object |-> its content
  prompt        \* an Assistant, a chat history of ChatMessage objects, and the templates built from them

vars == <<tableExists, rows, now, proc, last, calls, overlaps, origin, issued, prior, afterSeed, watch,
          raced, connections, codec, heap, prompt>>

\* the variables of the functions that use no file
pureVars == <<codec, heap, prompt>>

NoParams ==
  [name |-> "", type |-> "", archived |-> FALSE, system_prompt_template |-> "",
   user_prompt_template |-> "", llm_settings_collection_key |-> ""]

\* no exception and no return value yet
Pending == [outcome |-> "pending", why |-> "", at |-> "", id |-> None,
            assistants |-> <<>>, path |-> None]

\* the frame of a caller that runs no call
Idle ==
  [op |-> "idle", pc |-> "idle", org_id |-> None, params |-> NoParams,
   assistant_id |-> None, assistant_scoped_id |-> <<>>, scope |-> <<>>, id_ |-> <<>>,
   assistant_type |-> NoType,
   names |-> {}, todo |-> 0, ts |-> 0, ret |-> Pending]

\* raise: the exception leaves every function of the call, none catches it
Raise(f, exc, why) ==
  [f EXCEPT !.ret = [Pending EXCEPT !.outcome = exc, !.why = why, !.at = f.pc],
            !.pc = "done"]

\* no scoped id is being written or split
NoCodec == [pc |-> "none", scope |-> "", id |-> None, key |-> <<>>, frame |-> Idle]

\* the ChatMessage objects of a chat history
MsgRefs == 1..MaxMsgs

\* Optional[List[ChatMessage]] None
NoHistory == <<0>>

\* Optional[str] None, for a ChatMessage's content
NoContent == <<"None">>

\* no prompt template is being built
NoPrompt ==
  [assistant |-> [system_message_content |-> <<>>, user_prompt_template_content |-> <<>>],
   chat_history |-> NoHistory, original |-> <<>>, entry |-> <<>>, outs |-> <<>>]

PureIdle == codec = NoCodec /\ heap = [m \in MsgRefs |-> NoContent] /\ prompt = NoPrompt

\* a fresh system: no file holds the table, no call runs
InitStores ==
  /\ tableExists = [f \in Files |-> FALSE]
  /\ rows = [f \in Files |-> <<>>]
  /\ now = 0
  /\ proc = [c \in Callers |-> Idle]
  /\ last = Idle
  /\ calls = 0
  /\ overlaps = 0
  /\ origin = [f \in Files |-> <<>>]
  /\ issued = [f \in Files |-> <<>>]
  /\ prior = [f \in Files |-> <<>>]
  /\ afterSeed = FALSE
  /\ watch = [c \in Callers |-> FALSE]
  /\ raced = [c \in Callers |-> FALSE]
  /\ connections = 0

Init == PureIdle /\ InitStores

(* --------------------------- the SQL statements ------------------------ *)

\* CURRENT_TIMESTAMP at tick t: the clock in whole seconds (a tick is half a second)
CurrentTimestamp(t) == t - (t % 2)

Ids(t) == {t[i].id : i \in 1..Len(t)}

NamesOf(t) == {t[i].name : i \in 1..Len(t)}

\* id INTEGER PRIMARY KEY: a new row gets the largest rowid plus one
\* a rowid that repeats the largest one of the table
NextRowId_Reissue(t) ==
  IF t = <<>> THEN 1 ELSE CHOOSE m \in Ids(t) : \A j \in Ids(t) : j <= m

NextRowId(t) == IF t = <<>> THEN 1 ELSE 1 + (CHOOSE m \in Ids(t) : \A j \in Ids(t) : j <= m)

\* a name column without UNIQUE
InsertViolatesUnique_NoConstraint(t, n) == FALSE

\* name TEXT UNIQUE, for an INSERT of name n
InsertViolatesUnique(t, n) == n \in NamesOf(t)

\* INSERT INTO assistants (name, type, archived, ...) VALUES (...)
InsertRow(t, p, tick) ==
  Append(t, [id |-> NextRowId(t), name |-> p.name, type |-> p.type,
             archived |-> p.archived,
             system_prompt_template |-> p.system_prompt_template,
             user_prompt_template |-> p.user_prompt_template,
             llm_settings_collection_key |-> p.llm_settings_collection_key,
             created_at |-> CurrentTimestamp(tick), updated_at |-> CurrentTimestamp(tick)])

\* name TEXT UNIQUE, for an UPDATE that sets name n in the row with this id
\* a name column without UNIQUE, for an UPDATE
UpdateViolatesUnique_NoConstraint(t, id, n) == FALSE

\* name TEXT UNIQUE, for an UPDATE of the row with this id to name n
UpdateViolatesUnique(t, id, n) ==
  \E i \in 1..Len(t) : t[i].id = id /\ \E j \in 1..Len(t) : j # i /\ t[j].name = n

\* UPDATE assistants SET name = ?, ..., updated_at = ? WHERE id = ?
UpdateRow(t, id, p, ts) ==
  [i \in 1..Len(t) |->
     IF t[i].id = id
     THEN [t[i] EXCEPT !.name = p.name, !.type = p.type, !.archived = p.archived,
                       !.system_prompt_template = p.system_prompt_template,
                       !.user_prompt_template = p.user_prompt_template,
                       !.llm_settings_collection_key = p.llm_settings_collection_key,
                       !.updated_at = ts]
     ELSE t[i]]

\* SELECT ... FROM assistants WHERE id = ?, with the text id_ as parameter
SelectById(t, text) == SelectSeq(t, LAMBDA r : SqlIdEquals(r.id, text))

\* the SELECT without its WHERE clause
SelectByType_NoWhere(t, assistant_type) == t

\* SELECT ... FROM assistants [WHERE type = ?]
SelectByType(t, assistant_type) ==
  IF assistant_type = NoType THEN t ELSE SelectSeq(t, LAMBDA r : r.type = assistant_type)

\* the seeder's SELECT ... WHERE name in (...), and names = [row[1] for row in rows]
SeederNames(t) == NamesOf(t) \cap SeederSelectNames

(* ---------------------------- the statements --------------------------- *)
(* A step of a call is an operator from its frame f and the tick at which it *)
(* runs to the frame after the step (f), the tables (t) and the rows (r) it  *)
(* leaves.                                                                   *)

Same(f) == [f |-> f, t |-> tableExists, r |-> rows]

Returned(f, id, assistants, path) ==
  [f EXCEPT !.pc = "done",
            !.ret = [Pending EXCEPT !.outcome = "return", !.id = id,
                                    !.assistants = assistants, !.path = path]]

\* where a call goes on when _init(org_id) has returned
AfterInit(f) ==
  CASE f.op = "_init" -> Returned(f, None, <<>>, None)
    [] f.op = "create_or_update_assistant" ->
         [f EXCEPT !.pc = IF f.assistant_id = None THEN "execute" ELSE "utcnow"]
    [] f.op = "get_assistant" -> [f EXCEPT !.pc = "execute"]
    [] f.op = "list_assistants" -> [f EXCEPT !.pc = "execute"]

\* the first of the seeder's inserts from entry k on whose name is not in names
SeederTodo(names, k) ==
  IF \E i \in k..Len(Catalog) : Catalog[i].name \notin names
  THEN CHOOSE i \in k..Len(Catalog) :
         /\ Catalog[i].name \notin names
         /\ \A j \in k..(i - 1) : Catalog[j].name \in names
  ELSE 0

\* the seeder from entry k on: the next insert, or its return into _init's caller
SeederFrom(f, names, k) ==
  IF SeederTodo(names, k) = 0
  THEN AfterInit([f EXCEPT !.names = {}, !.todo = 0])
  ELSE [f EXCEPT !.pc = "seed_insert", !.names = names, !.todo = SeederTodo(names, k)]

\* _init: CREATE TABLE IF NOT EXISTS assistants, in the file of org_id
CreateTable(f) ==
  [f |-> [f EXCEPT !.pc = "seed_select"],
   t |-> [tableExists EXCEPT ![get_assistants_sqlite_file(f.org_id)] = TRUE],
   r |-> rows]

\* the seeder's SELECT in the global file, and the tests of names up to its first insert
SeedSelect(f) ==
  LET path == get_assistants_sqlite_file(None)
  IN  IF ~tableExists[path]
      THEN Same(Raise(f, "OperationalError", "no such table"))
      ELSE Same(SeederFrom(f, SeederNames(rows[path]), 1))

\* a seeder whose create overwrites the row that already carries the name
SeedInsert_Overwrite(f, tick) ==
  LET path == get_assistants_sqlite_file(None)
      p == Catalog[f.todo]
      t == rows[path]
  IN  [f |-> SeederFrom(f, f.names, f.todo + 1),
       t |-> tableExists,
       r |-> [rows EXCEPT ![path] =
                IF InsertViolatesUnique(t, p.name)
                THEN UpdateRow(t, t[CHOOSE i \in 1..Len(t) : t[i].name = p.name].id, p,
                               CurrentTimestamp(tick))
                ELSE InsertRow(t, p, tick)]]

\* one create_or_update_assistant(name=..., ...) of the seeder: no assistant_id, no org_id
SeedInsert(f, tick) ==
  LET path == get_assistants_sqlite_file(None)
      p == Catalog[f.todo]
  IN  IF InsertViolatesUnique(rows[path], p.name)
      THEN Same(Raise(f, "IntegrityError", "UNIQUE"))
      ELSE [f |-> SeederFrom(f, f.names, f.todo + 1),
            t |-> tableExists,
            r |-> [rows EXCEPT ![path] = InsertRow(rows[path], p, tick)]]

\* datetime.utcnow() in the parameters of the UPDATE
UtcNow(f, tick) == Same([f EXCEPT !.ts = tick, !.pc = "execute"])

\* create_or_update_assistant without assistant_id: the INSERT, commit, lastrowid
ExecuteInsert(f, tick) ==
  LET path == get_assistants_sqlite_file(f.org_id)
  IN  IF ~tableExists[path]
      THEN Same(Raise(f, "OperationalError", "no such table"))
      ELSE IF InsertViolatesUnique(rows[path], f.params.name)
      THEN Same(Raise(f, "IntegrityError", "UNIQUE"))
      ELSE [f |-> Returned(f, NextRowId(rows[path]), <<>>, path),
            t |-> tableExists,
            r |-> [rows EXCEPT ![path] = InsertRow(rows[path], f.params, tick)]]

\* create_or_update_assistant with assistant_id: the UPDATE, commit,
\* result_id = assistant_id whatever the number of rows the UPDATE changed
ExecuteUpdate(f) ==
  LET path == get_assistants_sqlite_file(f.org_id)
  IN  IF ~tableExists[path]
      THEN Same(Raise(f, "OperationalError", "no such table"))
      ELSE IF UpdateViolatesUnique(rows[path], f.assistant_id, f.params.name)
      THEN Same(Raise(f, "IntegrityError", "UNIQUE"))
      ELSE [f |-> Returned(f, f.assistant_id, <<>>, path),
            t |-> tableExists,
            r |-> [rows EXCEPT ![path] =
                     UpdateRow(rows[path], f.assistant_id, f.params, f.ts)]]

\* Assistant(key=str(row[0]), name=row[1], type=..., ..., scoped_id=f"{scope}_{row[0]}")
Assistant(row, type, scope) ==
  [key |-> Str(row.id), name |-> row.name, type |-> type, archived |-> row.archived,
   system_message_content |-> row.system_prompt_template,
   user_prompt_template_content |-> row.user_prompt_template,
   llm_settings_collection_key |-> row.llm_settings_collection_key,
   created_at |-> row.created_at, updated_at |-> row.updated_at,
   scoped_id |-> ScopedId(scope, row.id)]

\* the file get_assistant reads: the organisation's only for scope "org" with an org_id
GetPath(scope, org_id) ==
  IF scope = Chars("org") /\ Truthy(org_id)
  THEN get_assistants_sqlite_file(org_id)
  ELSE get_assistants_sqlite_file(None)

\* get_assistant: the SELECT by id, fetchone, and the Assistant it builds
ExecuteGet(f) ==
  LET path == GetPath(f.scope, f.org_id)
      found == SelectById(rows[path], f.id_)
      type == AssistantTypeOf(Capitalize(Chars(found[1].type)))
  IN  IF ~tableExists[path]
      THEN Same(Raise(f, "OperationalError", "no such table"))
      ELSE IF found = <<>>
      THEN Same(Raise(f, "ValueError", "No Assistant with"))
      ELSE IF type = "ValueError"
      THEN Same(Raise(f, "ValueError", "is not a valid AssistantType"))
      ELSE Same(Returned(f, None, <<Assistant(found[1], type, f.scope)>>, path))

\* the scope list_assistants writes into the scoped ids
ListScope(org_id) == IF Truthy(org_id) THEN Chars("org") ELSE Chars("global")

\* list_assistants: the SELECT, fetchall, and the Assistants it builds
ExecuteList(f) ==
  LET path == get_assistants_sqlite_file(f.org_id)
      found == SelectByType(rows[path], f.assistant_type)
  IN  IF ~tableExists[path]
      THEN Same(Raise(f, "OperationalError", "no such table"))
      ELSE Same(Returned(f, None,
                  [i \in 1..Len(found) |->
                     Assistant(found[i], found[i].type, ListScope(f.org_id))],
                  path))

\* get_assistant: scope, id_ = assistant_scoped_id.split("_")
SplitScopedId(f) ==
  LET parts == Split(f.assistant_scoped_id, "_")
  IN  IF Len(parts) # 2
      THEN Same(Raise(f, "ValueError", "unpack"))
      ELSE Same([f EXCEPT !.scope = parts[1], !.id_ = parts[2],
                          !.pc = IF Truthy(f.org_id) THEN "create_table" ELSE "execute"])

\* Optional[str] None, or the empty str: `if assistant_scoped_id:` is false for both
NoKey == <<>>

\* the scoped ids callers pass to get_assistant_or_default
DefaultKeyInputs == {NoKey, ScopedId(Chars("global"), 1)}

\* get_assistant_or_default without a scoped id: created_at=datetime.now(tz=UTC)
DefaultCreatedAt(f, tick) == Same([f EXCEPT !.ts = tick, !.pc = "now_updated"])

\* Assistant(key="default", scoped_id=f"global_{key}", type=AssistantType.SIMPLE_CHAT,
\*           archived=False, **SIMPLE_CHAT_PERSONAS["default"], ...)
DefaultAssistant(created_at, updated_at) ==
  [key |-> Chars("default"), name |-> "General Q&A Assistant", type |-> "SIMPLE_CHAT",
   archived |-> FALSE,
   system_message_content |-> "SIMPLE_CHAT_PERSONAS.default.system_message_content",
   user_prompt_template_content |-> "SIMPLE_CHAT_PERSONAS.default.user_prompt_template_content",
   llm_settings_collection_key |-> "azure_openai_with_local_embedding",
   created_at |-> created_at, updated_at |-> updated_at,
   scoped_id |-> Chars("global") \o <<"_">> \o Chars("default")]

\* a variant that takes the first global row, if there is one
DefaultReturn_FromStore(f, tick) ==
  LET t == rows[get_assistants_sqlite_file(None)]
  IN  Same(Returned(f, None,
             <<IF t = <<>> THEN DefaultAssistant(f.ts, tick)
               ELSE Assistant(t[1], t[1].type, Chars("global"))>>, None))

\* get_assistant_or_default without a scoped id: updated_at=datetime.now(tz=UTC), return
DefaultReturn(f, tick) == Same(Returned(f, None, <<DefaultAssistant(f.ts, tick)>>, None))

\* the statement at f.pc reads the clock
ReadsClock(f) ==
  \/ f.pc \in {"seed_insert", "utcnow", "now_created", "now_updated"}
  \/ f.pc = "execute" /\ f.op = "create_or_update_assistant" /\ f.assistant_id = None

\* the statement at f.pc, run at this tick
Statement(f, tick) ==
  CASE f.pc = "create_table" -> CreateTable(f)
    [] f.pc = "seed_select" -> SeedSelect(f)
    [] f.pc = "seed_insert" -> SeedInsert(f, tick)
    [] f.pc = "utcnow" -> UtcNow(f, tick)
    [] f.pc = "execute" /\ f.op = "create_or_update_assistant" /\ f.assistant_id = None ->
         ExecuteInsert(f, tick)
    [] f.pc = "execute" /\ f.op = "create_or_update_assistant" /\ f.assistant_id # None ->
         ExecuteUpdate(f)
    [] f.pc = "execute" /\ f.op = "get_assistant" -> ExecuteGet(f)
    [] f.pc = "execute" /\ f.op = "list_assistants" -> ExecuteList(f)
    [] f.pc = "now_created" -> DefaultCreatedAt(f, tick)
    [] f.pc = "now_updated" -> DefaultReturn(f, tick)
    [] f.pc = "done" -> Same(f)

(* ------------------------- the history variables ----------------------- *)

NoPrior == [updated |-> FALSE, created_at |-> 0, updated_at |-> 0]

InSeeder(f) == f.pc \in {"seed_select", "seed_insert"}

HasRaised(f) == f.ret.outcome \notin {"pending", "return"}

\* the step from frame f to frame g ends a run of the seeder without an exception
SeederReturns(f, g) == InSeeder(f) /\ ~InSeeder(g) /\ ~HasRaised(g)

\* the step from frame f to frame g is an UPDATE that changed a row of the file path
EffectiveUpdate(f, g, path) ==
  /\ f.pc = "execute"
  /\ f.op = "create_or_update_assistant"
  /\ f.assistant_id # None
  /\ path = get_assistants_sqlite_file(f.org_id)
  /\ g.ret.outcome = "return"
  /\ f.assistant_id \in Ids(rows[path])

\* the calls with frames f and g are UPDATEs of the same id in the same file
SameTarget(f, g) ==
  /\ f.op = "create_or_update_assistant" /\ g.op = "create_or_update_assistant"
  /\ f.assistant_id # None /\ g.assistant_id = f.assistant_id
  /\ get_assistants_sqlite_file(g.org_id) = get_assistants_sqlite_file(f.org_id)

\* what the step of caller c from frame f to the outcome o records
History(c, f, o) ==
  LET global == get_assistants_sqlite_file(None)
      grew(path) == Len(o.r[path]) > Len(rows[path])
      orgArg == IF f.pc = "seed_insert" THEN None ELSE f.org_id
  IN  /\ origin' = [path \in Files |->
                      IF grew(path) THEN Append(origin[path], orgArg) ELSE origin[path]]
      /\ issued' = [path \in Files |->
                      IF grew(path)
                      THEN Append(issued[path], o.r[path][Len(o.r[path])].id)
                      ELSE issued[path]]
      /\ prior' = [path \in Files |->
                     IF grew(path) THEN Append(prior[path], NoPrior)
                     ELSE IF EffectiveUpdate(f, o.f, path)
                     THEN [i \in 1..Len(rows[path]) |->
                             IF rows[path][i].id = f.assistant_id
                             THEN [updated |-> TRUE,
                                   created_at |-> rows[path][i].created_at,
                                   updated_at |-> rows[path][i].updated_at]
                             ELSE prior[path][i]]
                     ELSE prior[path]]
      /\ watch' = [d \in Callers |->
                     IF d = c
                     THEN InSeeder(o.f) /\ (f.pc = "seed_select" \/ watch[c])
                     ELSE watch[d] /\ o.r[global] = rows[global]]
      /\ afterSeed' =
           IF SeederReturns(f, o.f)
           THEN f.pc = "seed_select" \/ watch[c]
           ELSE afterSeed /\ o.r[global] = rows[global]
      /\ raced' = [d \in Callers |->
                     IF d = c
                     THEN \/ proc[c].pc # "idle" /\ raced[c]
                          \/ \E e \in Callers \ {c} : SameTarget(f, proc[e])
                     ELSE proc[d].pc # "idle" /\ (raced[d] \/ SameTarget(proc[d], f))]

(* ----------------------------- the connections ------------------------- *)

\* the statement at f.pc runs in a `with closing(sqlite3.connect(...)) as connection`
Connects(f) == f.pc \in {"create_table", "seed_select", "seed_insert", "execute"}

\* sqlite3.connect(path): one more open connection
Connect(n) == n + 1

\* a with block that closes the connection only when its body did not raise
Closing_OnReturnOnly(n, raised) == IF raised THEN n ELSE n - 1

\* contextlib.closing.__exit__: connection.close(), whether or not the body raised
Closing(n, raised) == n - 1

(* ------------------------------ the actions ---------------------------- *)

\* caller c runs the statement of frame f, at a tick not before the last one read
Do(c, f) ==
  \E tick \in IF ReadsClock(f) THEN now..MaxClock ELSE {now} :
  LET o == Statement(f, tick)
  IN  /\ now' = tick
      /\ tableExists' = o.t
      /\ rows' = o.r
      /\ proc' = [proc EXCEPT ![c] = IF o.f.pc = "done" THEN Idle ELSE o.f]
      /\ last' = IF o.f.pc = "done" THEN o.f ELSE Idle
      /\ connections' = IF Connects(f)
                        THEN Closing(Connect(connections), HasRaised(o.f))
                        ELSE connections
      /\ History(c, f, o)
      /\ UNCHANGED pureVars

\* a call starts on the first caller that runs none, with the code up to and
\* including its first statement; the organisations come into use in the order
\* of their ids (the code treats all of them alike)
Start(c, f) ==
  /\ proc[c].pc = "idle"
  /\ \A o \in OrgIds : o < f.org_id => tableExists[get_assistants_sqlite_file(o)]
  /\ \A i \in 1..Len(CallerOrder) :
       CallerOrder[i] = c => \A j \in 1..(i - 1) : proc[CallerOrder[j]].pc # "idle"
  /\ calls < MaxCalls
  /\ calls' = calls + 1
  /\ IF \E d \in Callers : proc[d].pc # "idle"
     THEN overlaps < MaxOverlap /\ overlaps' = overlaps + 1
     ELSE overlaps' = overlaps
  /\ Do(c, f)

\* _init(org_id), called by the application's setup
Call_init(c, org_id) ==
  Start(c, [Idle EXCEPT !.op = "_init", !.pc = "create_table", !.org_id = org_id])

Call_create_or_update_assistant(c, p, assistant_id, org_id) ==
  Start(c, [Idle EXCEPT !.op = "create_or_update_assistant",
                        !.org_id = org_id, !.params = p,
                        !.assistant_id = assistant_id,
                        !.pc = IF Truthy(org_id) THEN "create_table"
                               ELSE IF assistant_id = None THEN "execute"
                               ELSE "utcnow"])

Call_get_assistant(c, assistant_scoped_id, org_id) ==
  Start(c, SplitScopedId([Idle EXCEPT !.op = "get_assistant", !.pc = "split",
                                      !.org_id = org_id,
                                      !.assistant_scoped_id = assistant_scoped_id]).f)

Call_list_assistants(c, org_id, assistant_type) ==
  Start(c, [Idle EXCEPT !.op = "list_assistants", !.org_id = org_id,
                        !.assistant_type = assistant_type,
                        !.pc = IF Truthy(org_id) THEN "create_table" ELSE "execute"])

\* a call in progress runs its next statement
StepSeedSelect(c) == proc[c].pc = "seed_select" /\ Do(c, proc[c]) /\ UNCHANGED <<calls, overlaps>>

StepSeedInsert(c) == proc[c].pc = "seed_insert" /\ Do(c, proc[c]) /\ UNCHANGED <<calls, overlaps>>

StepUtcNow(c) == proc[c].pc = "utcnow" /\ Do(c, proc[c]) /\ UNCHANGED <<calls, overlaps>>

StepExecute(c) == proc[c].pc = "execute" /\ Do(c, proc[c]) /\ UNCHANGED <<calls, overlaps>>

(* --------------------------- the specification ------------------------- *)

Next ==
  \/ \E c \in Callers, org_id \in OrgInputs : Call_init(c, org_id)
  \/ \E c \in Callers, p \in UserInputs, assistant_id \in {None} \cup 1..MaxId,
        org_id \in OrgInputs :
       Call_create_or_update_assistant(c, p, assistant_id, org_id)
  \/ \E c \in Callers, assistant_scoped_id \in KeyInputs, org_id \in OrgInputs :
       Call_get_assistant(c, assistant_scoped_id, org_id)
  \/ \E c \in Callers, org_id \in OrgInputs, assistant_type \in FilterInputs :
       Call_list_assistants(c, org_id, assistant_type)
  \/ \E c \in Callers : StepSeedSelect(c)
  \/ \E c \in Callers : StepSeedInsert(c)
  \/ \E c \in Callers : StepUtcNow(c)
  \/ \E c \in Callers : StepExecute(c)

Spec == Init /\ [][Next]_vars

(* The application's setup has called _init() once, at tick 0, before any    *)
(* other call: the global file holds the table and the three seeded rows.    *)

SetupRows == InsertRow(InsertRow(InsertRow(<<>>, Catalog[1], 0), Catalog[2], 0), Catalog[3], 0)

InitSetup ==
  LET global == get_assistants_sqlite_file(None)
      only(x) == [f \in Files |-> IF f = global THEN x ELSE <<>>]
  IN  /\ PureIdle
      /\ tableExists = [f \in Files |-> f = global]
      /\ rows = only(SetupRows)
      /\ now = 0
      /\ proc = [c \in Callers |-> Idle]
      /\ last = Idle
      /\ calls = 0
      /\ overlaps = 0
      /\ origin = only(<<None, None, None>>)
      /\ issued = only(<<1, 2, 3>>)
      /\ prior = only(<<NoPrior, NoPrior, NoPrior>>)
      /\ afterSeed = TRUE
      /\ watch = [c \in Callers |-> FALSE]
      /\ raced = [c \in Callers |-> FALSE]
      /\ connections = 0

SpecSetup == InitSetup /\ [][Next]_vars

\* the state InitSetup describes is the one the fresh system's first _init() leaves
SetupReached ==
  LET global == get_assistants_sqlite_file(None)
  IN  /\ last.op = "_init" /\ last.ret.outcome = "return" /\ calls = 1
      /\ rows = [f \in Files |-> IF f = global THEN SetupRows ELSE <<>>]
      /\ tableExists = [f \in Files |-> f = global]
      /\ origin[global] = <<None, None, None>> /\ issued[global] = <<1, 2, 3>>
      /\ prior[global] = <<NoPrior, NoPrior, NoPrior>>
      /\ afterSeed /\ watch = [c \in Callers |-> FALSE] /\ now = 0
      /\ proc = [c \in Callers |-> Idle] /\ connections = 0
      /\ raced = [c \in Callers |-> FALSE]

(* After the setup, organisation 1 has created an assistant and a caller has  *)
(* renamed the seeded row 1 of the global file, all at tick 0: the global     *)
(* file lacks the catalog name "General Q&A" until a seeder runs again.       *)

RenamePayload == CHOOSE p \in UserInputs : p.name = "Test" /\ p.type = "ASK"

InitRenamed ==
  LET global == get_assistants_sqlite_file(None)
      org == get_assistants_sqlite_file(1)
      per(g, o) == [f \in Files |-> IF f = global THEN g ELSE IF f = org THEN o ELSE <<>>]
  IN  /\ PureIdle
      /\ tableExists = [f \in Files |-> f \in {global, org}]
      /\ rows = per(UpdateRow(SetupRows, 1, RenamePayload, 0),
                    InsertRow(<<>>, RenamePayload, 0))
      /\ now = 0
      /\ proc = [c \in Callers |-> Idle]
      /\ last = Idle
      /\ calls = 0
      /\ overlaps = 0
      /\ origin = per(<<None, None, None>>, <<1>>)
      /\ issued = per(<<1, 2, 3>>, <<1>>)
      /\ prior = per(<<[updated |-> TRUE, created_at |-> 0, updated_at |-> 0], NoPrior, NoPrior>>,
                     <<NoPrior>>)
      /\ afterSeed = FALSE
      /\ watch = [c \in Callers |-> FALSE]
      /\ raced = [c \in Callers |-> FALSE]
      /\ connections = 0

SpecRenamed == InitRenamed /\ [][Next]_vars

\* the state InitRenamed describes is the one two calls after the setup leave
RenamedReached ==
  LET global == get_assistants_sqlite_file(None)
      org == get_assistants_sqlite_file(1)
      per(g, o) == [f \in Files |-> IF f = global THEN g ELSE IF f = org THEN o ELSE <<>>]
  IN  /\ last.op = "create_or_update_assistant" /\ last.ret.outcome = "return" /\ calls = 2
      /\ last.assistant_id = 1 /\ last.org_id = None /\ last.params = RenamePayload
      /\ tableExists = [f \in Files |-> f \in {global, org}]
      /\ rows = per(UpdateRow(SetupRows, 1, RenamePayload, 0),
                    InsertRow(<<>>, RenamePayload, 0))
      /\ origin = per(<<None, None, None>>, <<1>>) /\ issued = per(<<1, 2, 3>>, <<1>>)
      /\ prior = per(<<[updated |-> TRUE, created_at |-> 0, updated_at |-> 0], NoPrior, NoPrior>>,
                     <<NoPrior>>)
      /\ ~afterSeed /\ watch = [c \in Callers |-> FALSE] /\ now = 0 /\ overlaps = 0
      /\ raced = [c \in Callers |-> FALSE] /\ connections = 0
      /\ proc = [c \in Callers |-> Idle]

(* ------------------------ get_assistant_or_default ---------------------- *)

\* with a scoped id the call is get_assistant's, whose Assistant or exception it passes on
Call_get_assistant_or_default(c, assistant_scoped_id, org_id) ==
  IF assistant_scoped_id # NoKey
  THEN Call_get_assistant(c, assistant_scoped_id, org_id)
  ELSE Start(c, [Idle EXCEPT !.op = "get_assistant_or_default", !.pc = "now_created",
                             !.org_id = org_id])

StepNowUpdated(c) == proc[c].pc = "now_updated" /\ Do(c, proc[c]) /\ UNCHANGED <<calls, overlaps>>

NextDefault ==
  \/ Next
  \/ \E c \in Callers, assistant_scoped_id \in DefaultKeyInputs, org_id \in OrgInputs :
       Call_get_assistant_or_default(c, assistant_scoped_id, org_id)
  \/ \E c \in Callers : StepNowUpdated(c)

SpecDefault == Init /\ [][NextDefault]_vars

(* ------------------- writing and splitting a scoped id ------------------ *)
(* list_assistants writes f"{scope}_{row[0]}" and get_assistant splits it.   *)

\* the variables of the files and the calls
storeVars == <<tableExists, rows, now, proc, last, calls, overlaps, origin, issued, prior,
               afterSeed, watch, raced, connections>>

\* list_assistants: scoped_id=f"{scope}_{row[0]}"
Encode ==
  /\ codec.pc = "input"
  /\ codec' = [codec EXCEPT !.pc = "encoded", !.key = ScopedId(Chars(codec.scope), codec.id)]
  /\ UNCHANGED <<storeVars, heap, prompt>>

\* get_assistant: scope, id_ = assistant_scoped_id.split("_")
Decode ==
  /\ codec.pc = "encoded"
  /\ codec' = [codec EXCEPT
                 !.pc = "decoded",
                 !.frame = SplitScopedId([Idle EXCEPT !.op = "get_assistant", !.pc = "split",
                                                      !.assistant_scoped_id = codec.key]).f]
  /\ UNCHANGED <<storeVars, heap, prompt>>

InitCodec ==
  /\ InitStores
  /\ heap = [m \in MsgRefs |-> NoContent] /\ prompt = NoPrompt
  /\ \E scope \in {"global", "org"}, id \in 0..MaxKeyId :
       codec = [NoCodec EXCEPT !.pc = "input", !.scope = scope, !.id = id]

NextCodec == Encode \/ Decode

SpecCodec == InitCodec /\ [][NextCodec]_vars

(* ------------ llama_index_chat_prompt_template_from_assistant ----------- *)

\* the contents of the ChatMessages of a chat history
ContentInputs ==
  { NoContent, <<>>, <<"a">>, <<"{">>, <<"}", "}">>, <<"a", "{", "b", "}", "c">> }

\* the chat histories: None, or a list of ChatMessage objects, each of them once
HistoryInputs ==
  {NoHistory} \cup
  {h \in UNION {[1..n -> MsgRefs] : n \in 0..MaxMsgs} :
     \A i, j \in 1..Len(h) : i # j => h[i] # h[j]}

\* the prompts of the Assistants, as characters
PromptAssistants ==
  { [system_message_content |-> <<"s">>, user_prompt_template_content |-> <<"{", "q", "}">>],
    [system_message_content |-> <<"{", "c", "}">>, user_prompt_template_content |-> <<"u">>] }

\* s.replace(old, new) for a one-character old
RECURSIVE Replace(_, _, _)
Replace(s, old, new) ==
  IF s = <<>> THEN <<>>
  ELSE (IF Head(s) = old THEN new ELSE <<Head(s)>>) \o Replace(Tail(s), old, new)

\* a variant that leaves the braces as they are
Escape_Nothing(content) == IF content = NoContent THEN <<>> ELSE content

\* s: str = m.content or ""; s.replace("{", "{{").replace("}", "}}")
Escape(content) ==
  LET s == IF content = NoContent \/ content = <<>> THEN <<>> ELSE content
  IN  Replace(Replace(s, "{", <<"{", "{">>), "}", <<"}", "}">>)

\* for m in messages: m.content = ..., on the objects of heap h
RECURSIVE EscapeEach(_, _)
EscapeEach(h, messages) ==
  IF messages = <<>> THEN h
  ELSE EscapeEach([h EXCEPT ![Head(messages)] = Escape(h[Head(messages)])], Tail(messages))

\* a variant that puts the user message first
MessageTemplates_UserFirst(assistant, messages, h) ==
  << [role |-> "user", ref |-> 0, content |-> assistant.user_prompt_template_content] >>
  \o [i \in 1..Len(messages) |-> [role |-> "history", ref |-> messages[i], content |-> h[messages[i]]]]
  \o << [role |-> "system", ref |-> 0, content |-> assistant.system_message_content] >>

\* [_system_prompt_message, *messages, _user_prompt_message], with the contents in heap h
MessageTemplates(assistant, messages, h) ==
  << [role |-> "system", ref |-> 0, content |-> assistant.system_message_content] >>
  \o [i \in 1..Len(messages) |-> [role |-> "history", ref |-> messages[i], content |-> h[messages[i]]]]
  \o << [role |-> "user", ref |-> 0, content |-> assistant.user_prompt_template_content] >>

\* messages = chat_history or []
Messages(chat_history) == IF chat_history = NoHistory THEN <<>> ELSE chat_history

\* one call with the Assistant and the chat history of prompt
BuildPrompt ==
  LET messages == Messages(prompt.chat_history)
      h == EscapeEach(heap, messages)
  IN  /\ prompt.original # <<>>
      /\ Len(prompt.outs) < MaxBuilds
      /\ heap' = h
      /\ prompt' = [prompt EXCEPT
                      !.entry = heap,
                      !.outs = Append(@, MessageTemplates(prompt.assistant, messages, h))]
      /\ UNCHANGED <<storeVars, codec>>

InitPrompt ==
  /\ InitStores
  /\ codec = NoCodec
  /\ heap \in [MsgRefs -> ContentInputs]
  /\ \E assistant \in PromptAssistants, chat_history \in HistoryInputs :
       prompt = [NoPrompt EXCEPT !.assistant = assistant, !.chat_history = chat_history,
                                 !.original = heap]

NextPrompt == BuildPrompt

SpecPrompt == InitPrompt /\ [][NextPrompt]_vars

(* ---------------------------- the properties --------------------------- *)

\* the call that has just ended
Ended(op) == last.pc = "done" /\ last.op = op

\* the number of rows of t with this name
Count(t, n) == Cardinality({i \in 1..Len(t) : t[i].name = n})

\* sqlite3.IntegrityError: UNIQUE constraint failed: assistants.name
DuplicateName(f) == f.ret.outcome = "IntegrityError"

\* ValueError: No Assistant with: id = ...
NotFound(f) == f.ret.outcome = "ValueError" /\ f.ret.why = "No Assistant with"

\* ValueError of the unpacking of assistant_scoped_id.split("_")
MalformedKey(f) == f.ret.outcome = "ValueError" /\ f.ret.why = "unpack"

\* a scoped id is a scope of {global, org}, one separator and a non-negative integer
WellFormedKey(k) ==
  LET parts == Split(k, "_")
  IN  /\ Len(parts) = 2
      /\ parts[1] \in {Chars("global"), Chars("org")}
      /\ IsDecimal(parts[2])

\* the create-or-update call without id that has ended in the step, if any
CreateEnds == last'.pc = "done" /\ last'.op = "create_or_update_assistant"
                /\ last'.assistant_id = None

\* C1: a create_or_update_assistant call without id, for a name that a row of its
\* store already has (as after a first such call), fails with the duplicate-name
\* error and changes no row; the store then holds exactly one row of that name.
\* The same holds of the creates the seeder makes.
C1_DuplicateNameRejected ==
  [][ LET path == get_assistants_sqlite_file(last'.org_id)
          global == get_assistants_sqlite_file(None)
      IN  /\ (CreateEnds /\ last'.params.name \in NamesOf(rows[path]))
               => /\ DuplicateName(last')
                  /\ rows' = rows
                  /\ Count(rows'[path], last'.params.name) = 1
          /\ \A c \in Callers :
               (/\ proc[c].pc = "seed_insert"
                /\ proc'[c] # proc[c]
                /\ Catalog[proc[c].todo].name \in NamesOf(rows[global]))
               => /\ DuplicateName(last') /\ last'.ret.at = "seed_insert"
                  /\ rows' = rows
                  /\ Count(rows'[global], Catalog[proc[c].todo].name) = 1 ]_vars

\* C1 witness: a second create of the name "Test" in the store of organisation 1
\* has failed on its INSERT
C1_Witness ==
  /\ Ended("create_or_update_assistant") /\ last.assistant_id = None
  /\ last.org_id = 1 /\ last.params.name = "Test"
  /\ DuplicateName(last) /\ last.ret.at = "execute"
  /\ Count(rows[get_assistants_sqlite_file(1)], "Test") = 1

\* C2: no call ends with the duplicate-name error of an insert of the seeder:
\* the caller that loses the seeding race completes like the winner.
C2_SeederRaceSwallowed == ~(last.pc = "done" /\ DuplicateName(last) /\ last.ret.at = "seed_insert")

\* C3: a run of the seeder that starts when the global file is as a complete,
\* undisturbed run of the seeder left it inserts nothing, raises nothing, and
\* leaves exactly one row for each name of the catalog.
C3_SeederIdempotent ==
  [][ \A c \in Callers :
        (proc[c].pc = "seed_select" /\ proc'[c] # proc[c] /\ afterSeed)
        => /\ rows' = rows
           /\ ~InSeeder(proc'[c])
           /\ IF proc'[c].pc = "idle" THEN last'.ret.outcome = "return"
              ELSE ~HasRaised(proc'[c])
           /\ \A n \in CatalogNames :
                Count(rows'[get_assistants_sqlite_file(None)], n) = 1 ]_vars

\* C3 witness: the second of two calls in sequence, _init(1) after the _init()
\* that created and seeded the global file, has returned
C3_Witness ==
  /\ Ended("_init") /\ last.org_id = 1 /\ last.ret.outcome = "return"
  /\ calls = 2 /\ overlaps = 0 /\ afterSeed
  /\ Len(rows[get_assistants_sqlite_file(None)]) = Len(Catalog)

\* the call that has just ended ran its own statement (the INSERT, UPDATE or SELECT
\* after _init)
RanStatement == last.ret.outcome = "return" \/ last.ret.at = "execute"

\* C4: a create_or_update_assistant call whose UPDATE ran with an assistant_id
\* that no row of the store has fails with the not-found error.
C4_UpdateMissingIdFails ==
  (/\ Ended("create_or_update_assistant") /\ last.assistant_id # None
   /\ RanStatement
   /\ tableExists[get_assistants_sqlite_file(last.org_id)]
   /\ last.assistant_id \notin Ids(rows[get_assistants_sqlite_file(last.org_id)]))
  => NotFound(last)

\* C5: the Assistants list_assistants(org_id=A) returns are rows that no call
\* with another organisation's id B inserted.
C5_ScopeIsolation ==
  (Ended("list_assistants") /\ last.ret.outcome = "return" /\ last.org_id \in OrgIds)
  => \A k \in 1..Len(last.ret.assistants) :
       /\ \E i \in 1..Len(rows[last.ret.path]) :
            Str(rows[last.ret.path][i].id) = last.ret.assistants[k].key
       /\ \A i \in 1..Len(rows[last.ret.path]) :
            Str(rows[last.ret.path][i].id) = last.ret.assistants[k].key
            => origin[last.ret.path][i] \notin (OrgIds \ {last.org_id})

\* C5 witness: list_assistants(org_id=2) has returned while the file of
\* organisation 1 holds a row that a call with org_id=1 inserted
C5_Witness ==
  /\ Ended("list_assistants") /\ last.ret.outcome = "return" /\ last.org_id = 2
  /\ \E i \in 1..Len(origin[get_assistants_sqlite_file(1)]) :
       origin[get_assistants_sqlite_file(1)][i] = 1

\* the scoped ids list_assistants(org_id) returns now
ListedKeys(org_id) ==
  {ScopedId(ListScope(org_id), r.id) :
     r \in {rows[get_assistants_sqlite_file(org_id)][i] :
              i \in 1..Len(rows[get_assistants_sqlite_file(org_id)])}}

\* C6: get_assistant on a scoped id with scope "org" that list_assistants returns
\* for an organisation never returns a row of the global file, with or without
\* an org_id.
C6_OrgKeyNeverGlobal ==
  (/\ Ended("get_assistant") /\ last.ret.outcome = "return"
   /\ last.scope = Chars("org")
   /\ \E A \in OrgIds : last.assistant_scoped_id \in ListedKeys(A))
  => last.ret.path # get_assistants_sqlite_file(None)

\* C7: get_assistant fails with the malformed-key error for every scoped id that
\* is not a scope of {global, org}, one separator and a non-negative integer.
C7_MalformedKeyRejected ==
  (Ended("get_assistant") /\ ~WellFormedKey(last.assistant_scoped_id))
  => MalformedKey(last)

\* the rows of the file get_assistant resolves that the id of the scoped id selects
Addressed(f) == SelectById(rows[GetPath(f.scope, f.org_id)], f.id_)

\* C8: get_assistant with a well-formed scoped id whose id no row of the resolved
\* file has fails with the not-found error.
C8_AbsentIdNotFound ==
  (/\ Ended("get_assistant") /\ WellFormedKey(last.assistant_scoped_id)
   /\ Addressed(last) = <<>>)
  => NotFound(last)

\* the scoped id of frame f is the one list_assistants gives the row it addresses
OwnKey(f) ==
  /\ Addressed(f) # <<>>
  /\ \/ f.scope = Chars("global") /\ GetPath(f.scope, f.org_id) = get_assistants_sqlite_file(None)
     \/ f.scope = Chars("org") /\ GetPath(f.scope, f.org_id) # get_assistants_sqlite_file(None)
  /\ f.assistant_scoped_id = ScopedId(f.scope, Addressed(f)[1].id)

\* C9: get_assistant on the scoped id of a row that updates have changed, one
\* after the other, returns an Assistant with the row's id, its created_at of
\* before the latest update and an updated_at not before the one it had then.
C9_UpdatePreservesIdentity ==
  (Ended("get_assistant") /\ RanStatement /\ overlaps = 0 /\ OwnKey(last))
  => LET path == GetPath(last.scope, last.org_id)
         i == CHOOSE i \in 1..Len(rows[path]) : rows[path][i].id = Addressed(last)[1].id
     IN  prior[path][i].updated
         => /\ last.ret.outcome = "return"
            /\ last.ret.assistants[1].key = Str(rows[path][i].id)
            /\ last.ret.assistants[1].created_at = prior[path][i].created_at
            /\ last.ret.assistants[1].updated_at >= prior[path][i].updated_at

\* C10: in every file the ids the successful INSERTs produced are strictly
\* increasing, and a create returns the id its INSERT produced.
C10_IdsStrictlyIncrease ==
  /\ \A path \in Files : \A i, j \in 1..Len(issued[path]) :
       i < j => issued[path][i] < issued[path][j]
  /\ (/\ Ended("create_or_update_assistant") /\ last.assistant_id = None
      /\ last.ret.outcome = "return")
     => LET path == get_assistants_sqlite_file(last.org_id)
        IN  /\ issued[path] # <<>>
            /\ last.ret.id = issued[path][Len(issued[path])]

\* C10 witness: a second create in the file of organisation 1 has returned
C10_Witness ==
  /\ Ended("create_or_update_assistant") /\ last.assistant_id = None
  /\ last.ret.outcome = "return" /\ last.org_id = 1
  /\ Len(issued[get_assistants_sqlite_file(1)]) = 2

\* C11: the scoped id list_assistants writes for a scope of {global, org} and a
\* non-negative id splits, without an exception, into that scope and the decimal
\* text of that id, which SQLite compares equal to the id.
C11_ScopedIdRoundTrip ==
  codec.pc = "decoded"
  => /\ ~HasRaised(codec.frame)
     /\ codec.frame.scope = Chars(codec.scope)
     /\ codec.frame.id_ = Str(codec.id)
     /\ SqlIdEquals(codec.id, codec.frame.id_)

\* C11 witness: the scoped id of scope "org" and an id of two digits has been split
C11_Witness ==
  codec.pc = "decoded" /\ codec.scope = "org" /\ codec.id = 10 /\ Len(codec.frame.id_) = 2

\* a step of a get_assistant_or_default call that was given no scoped id and no org_id
DefaultStep ==
  \E c \in Callers :
    /\ proc'[c] # proc[c]
    /\ \/ proc[c].op = "get_assistant_or_default" /\ proc[c].org_id = None
       \/ proc'[c].op = "get_assistant_or_default" /\ proc'[c].org_id = None

\* C12: get_assistant_or_default without scoped id and org_id writes no file in any
\* of its steps and returns, whatever the files hold, the Assistant with scoped id
\* "global_default", key "default" and the name and prompts of the default persona.
C12_DefaultIsFixed ==
  [][ DefaultStep
      => /\ rows' = rows /\ tableExists' = tableExists
         /\ last'.pc = "done"
            => /\ last'.ret.outcome = "return"
               /\ Len(last'.ret.assistants) = 1
               /\ \E t1, t2 \in 0..MaxClock :
                    last'.ret.assistants[1] = DefaultAssistant(t1, t2)
               /\ last'.ret.assistants[1].scoped_id
                    = <<"g", "l", "o", "b", "a", "l", "_", "d", "e", "f", "a", "u", "l", "t">>
    ]_vars

\* C12 witness: the call has returned the default Assistant while the global file
\* holds rows
C12_Witness ==
  /\ last.pc = "done" /\ last.op = "get_assistant_or_default" /\ last.org_id = None
  /\ last.ret.outcome = "return"
  /\ last.ret.assistants[1].name = "General Q&A Assistant"
  /\ rows[get_assistants_sqlite_file(None)] # <<>>

\* the templates the latest call has returned
Built == prompt.outs[Len(prompt.outs)]

\* C13: the templates are len(history)+2 messages (two for no or an empty history):
\* the system message with the Assistant's system_message_content, the history's
\* messages in their order, and the user message with the Assistant's
\* user_prompt_template_content as it is.
C13_PromptOrder ==
  prompt.outs # <<>>
  => LET history == Messages(prompt.chat_history)
         n == Len(history)
     IN  /\ Len(Built) = n + 2
         /\ Built[1].role = "system"
         /\ Built[1].content = prompt.assistant.system_message_content
         /\ \A i \in 1..n : Built[i + 1].role = "history" /\ Built[i + 1].ref = history[i]
         /\ Built[n + 2].role = "user"
         /\ Built[n + 2].content = prompt.assistant.user_prompt_template_content

\* C13 witness: templates built from a history of two messages, the second object first
C13_Witness ==
  /\ prompt.outs # <<>> /\ prompt.chat_history = <<2, 1>>
  /\ Len(Built) = 4 /\ Built[2].ref = 2 /\ Built[3].ref = 1

\* the characters of s with every "{" doubled and every "}" doubled
RECURSIVE Doubled(_)
Doubled(s) ==
  IF s = <<>> THEN <<>>
  ELSE (IF Head(s) \in {"{", "}"} THEN <<Head(s), Head(s)>> ELSE <<Head(s)>>) \o Doubled(Tail(s))

\* C14: in the templates each history message's content is the content it had when
\* the call began with every brace doubled ("" for None), and the system and user
\* messages have the Assistant's contents with their braces single.
C14_HistoryEscaped ==
  prompt.outs # <<>>
  => LET history == Messages(prompt.chat_history)
         n == Len(history)
     IN  /\ \A i \in 1..n :
              LET before == prompt.entry[history[i]]
              IN  Built[i + 1].content = IF before = NoContent THEN <<>> ELSE Doubled(before)
         /\ Built[1].content = prompt.assistant.system_message_content
         /\ Built[n + 2].content = prompt.assistant.user_prompt_template_content

\* C14 witness: a message with content a{b}c has come out as a{{b}}c, beside a
\* system message that holds a single brace
C14_Witness ==
  /\ Len(prompt.outs) = 1 /\ Len(Built) >= 3
  /\ prompt.entry[Built[2].ref] = <<"a", "{", "b", "}", "c">>
  /\ Built[2].content = <<"a", "{", "{", "b", "}", "}", "c">>
  /\ Built[1].content = <<"{", "c", "}">>

\* C15: the call leaves the contents of the caller's ChatMessages as they were, and
\* a second call with the same Assistant and history returns the contents of the first.
C15_PromptIsPure ==
  /\ prompt.outs # <<>> => heap = prompt.original
  /\ \A i, j \in 1..Len(prompt.outs) :
       [k \in 1..Len(prompt.outs[i]) |-> prompt.outs[i][k].content]
         = [k \in 1..Len(prompt.outs[j]) |-> prompt.outs[j][k].content]

\* the row of table t with this id
RowOf(t, id) == t[CHOOSE i \in 1..Len(t) : t[i].id = id]

\* C16: list_assistants(org_id, assistant_type), when it returns, returns one
\* Assistant for each row of the file of org_id (the global file without org_id)
\* whose type is assistant_type (for each row without assistant_type), in the order
\* of their INSERTs, with the row's fields and scoped id "org_<id>" with an org_id
\* and "global_<id>" without.
C16_ListExact ==
  (Ended("list_assistants") /\ last.ret.outcome = "return")
  => LET path == IF last.org_id \in OrgIds THEN get_sqlite_org_system_file(last.org_id)
                 ELSE get_sqlite_global_system_file
         t == rows[path]
         Wanted(id) == last.assistant_type = NoType \/ RowOf(t, id).type = last.assistant_type
         ids == SelectSeq(issued[path], Wanted)
         tag == IF last.org_id \in OrgIds THEN <<"o", "r", "g", "_">>
                ELSE <<"g", "l", "o", "b", "a", "l", "_">>
     IN  /\ Len(last.ret.assistants) = Len(ids)
         /\ \A k \in 1..Len(ids) :
              LET a == last.ret.assistants[k]
                  row == RowOf(t, ids[k])
              IN  /\ a.key = Str(ids[k])
                  /\ a.scoped_id = tag \o Str(ids[k])
                  /\ a.name = row.name /\ a.type = row.type /\ a.archived = row.archived
                  /\ a.system_message_content = row.system_prompt_template
                  /\ a.user_prompt_template_content = row.user_prompt_template
                  /\ a.llm_settings_collection_key = row.llm_settings_collection_key
                  /\ a.created_at = row.created_at /\ a.updated_at = row.updated_at

\* C16 witness: list_assistants(org_id=1, assistant_type=ASK) has returned one of
\* the two rows of the organisation's file
C16_Witness ==
  /\ Ended("list_assistants") /\ last.ret.outcome = "return"
  /\ last.org_id = 1 /\ last.assistant_type = "ASK"
  /\ Len(rows[get_assistants_sqlite_file(1)]) = 2
  /\ Len(last.ret.assistants) = 1

\* C17: get_assistant on the scoped id of a row that create_or_update_assistant
\* inserted with a type t of {SIMPLE_CHAT, AGENT, ASK}, and that no UPDATE has
\* changed, returns without an exception an Assistant of type t.
C17_TypeRoundTrip ==
  (Ended("get_assistant") /\ RanStatement /\ OwnKey(last))
  => LET path == GetPath(last.scope, last.org_id)
         row == Addressed(last)[1]
         i == CHOOSE i \in 1..Len(rows[path]) : rows[path][i].id = row.id
     IN  (~prior[path][i].updated /\ row.type \in TypeNames)
         => /\ last.ret.outcome = "return"
            /\ last.ret.assistants[1].type = row.type

\* C18: on a fresh system the first create_or_update_assistant, list_assistants or
\* get_assistant call, without org_id or with one, ends without a storage error and
\* leaves the table in the file it addressed; without org_id it leaves every name
\* of the catalog in the global file.
C18_FirstAccessProvisions ==
  (/\ last.pc = "done" /\ calls = 1
   /\ last.op \in {"create_or_update_assistant", "list_assistants", "get_assistant"}
   /\ last.op = "get_assistant" => WellFormedKey(last.assistant_scoped_id))
  => LET path == IF last.op = "get_assistant" THEN GetPath(last.scope, last.org_id)
                 ELSE get_assistants_sqlite_file(last.org_id)
     IN  /\ last.ret.outcome # "OperationalError"
         /\ tableExists[path]
         /\ last.org_id = None
            => CatalogNames \subseteq NamesOf(rows[get_assistants_sqlite_file(None)])

\* no two rows of a file have the same name
NamesUnique ==
  \A path \in Files : \A i, j \in 1..Len(rows[path]) :
    rows[path][i].name = rows[path][j].name => i = j

\* the step ends a create_or_update_assistant call whose UPDATE ran on a row of its
\* file with a name that another row of the file has
RenameToUsedName ==
  /\ last'.pc = "done" /\ last'.op = "create_or_update_assistant"
  /\ last'.assistant_id # None
  /\ last'.ret.outcome = "return" \/ last'.ret.at = "execute"
  /\ LET t == rows[get_assistants_sqlite_file(last'.org_id)]
     IN  \E i, j \in 1..Len(t) :
           i # j /\ t[i].id = last'.assistant_id /\ t[j].name = last'.params.name

\* C19: in every state the names of the rows of a file differ, after any creates,
\* updates and seeder runs, and an UPDATE of a row to the name of another row of
\* its file fails with the duplicate-name error and changes no row.
C19_NamesStayUnique ==
  /\ []NamesUnique
  /\ [][RenameToUsedName => DuplicateName(last') /\ rows' = rows]_vars

\* C19 witness: an UPDATE of row 1 to the name of another row has been refused
C19_Witness ==
  /\ Ended("create_or_update_assistant") /\ last.assistant_id = 1
  /\ DuplicateName(last) /\ last.ret.at = "execute"
  /\ \E i \in 1..Len(rows[get_assistants_sqlite_file(last.org_id)]) :
       /\ rows[get_assistants_sqlite_file(last.org_id)][i].id # 1
       /\ rows[get_assistants_sqlite_file(last.org_id)][i].name = last.params.name

\* the step ends a list_assistants call that returned
ListReturns == last'.pc = "done" /\ last'.op = "list_assistants" /\ last'.ret.outcome = "return"

\* C20: no step removes an id from a file; get_assistant on the scoped id of a row
\* whose archived flag is set returns its Assistant; and list_assistants returns
\* the Assistant of every row with the flag set that its filter admits.
C20_NothingDeleted ==
  /\ [][\A path \in Files : Ids(rows[path]) \subseteq Ids(rows'[path])]_vars
  /\ []((Ended("get_assistant") /\ RanStatement /\ OwnKey(last)
          /\ Addressed(last)[1].archived)
         => /\ last.ret.outcome = "return"
            /\ last.ret.assistants[1].key = Str(Addressed(last)[1].id)
            /\ last.ret.assistants[1].archived)
  /\ [][ListReturns
        => LET t == rows[get_assistants_sqlite_file(last'.org_id)]
           IN  \A i \in 1..Len(t) :
                 (t[i].archived /\ last'.assistant_type \in {NoType, t[i].type})
                 => \E k \in 1..Len(last'.ret.assistants) :
                      /\ last'.ret.assistants[k].key = Str(t[i].id)
                      /\ last'.ret.assistants[k].archived
       ]_vars

\* caller c runs a statement of the seeder in this step
SeederStep(c) == InSeeder(proc[c]) /\ proc'[c] # proc[c]

\* C21: a step of the seeder leaves every file but the global one as it is, leaves
\* every row the global file held before the step with all its fields, and adds
\* only rows that carry a catalog name no row had, with the catalog's content.
C21_SeederOnlyInserts ==
  [][\A c \in Callers :
       SeederStep(c)
       => LET global == get_assistants_sqlite_file(None)
              old == rows[global]
              new == rows'[global]
          IN  /\ \A path \in Files \ {global} : rows'[path] = rows[path]
              /\ Len(new) >= Len(old)
              /\ SubSeq(new, 1, Len(old)) = old
              /\ \A i \in (Len(old) + 1)..Len(new) :
                    /\ new[i].name \notin NamesOf(old)
                    /\ \E k \in 1..Len(Catalog) :
                         /\ new[i].name = Catalog[k].name
                         /\ new[i].type = Catalog[k].type
                         /\ new[i].archived = Catalog[k].archived
                         /\ new[i].system_prompt_template = Catalog[k].system_prompt_template
                         /\ new[i].user_prompt_template = Catalog[k].user_prompt_template
                         /\ new[i].llm_settings_collection_key
                              = Catalog[k].llm_settings_collection_key
    ]_vars

\* _init() has returned after its seeder added the two names that were absent; the
\* row a caller had inserted under the catalog name "Elon Musk", with its own
\* type and templates, is still the first row and still carries them
C21_Witness ==
  LET t == rows[get_assistants_sqlite_file(None)]
  IN  /\ Ended("_init") /\ last.ret.outcome = "return"
      /\ Len(t) = 3
      /\ t[1].name = "Elon Musk" /\ t[1].type = "AGENT"
      /\ t[1].system_prompt_template = "s2" /\ t[1].user_prompt_template = "u2"
      /\ {t[2].name, t[3].name} = {"General Q&A", "General Q&A Assistant"}

\* the frame, after this step, of the call that took it
Acting ==
  IF last' # Idle THEN last' ELSE proc'[CHOOSE c \in Callers : proc'[c] # proc[c]]

\* the rows a step added to the file are catalog rows under names no row had
OnlyCatalogInserts(path) ==
  LET old == rows[path]
      new == rows'[path]
  IN  /\ Len(new) >= Len(old)
      /\ SubSeq(new, 1, Len(old)) = old
      /\ \A i \in (Len(old) + 1)..Len(new) :
            /\ new[i].name \notin NamesOf(old)
            /\ \E k \in 1..Len(Catalog) :
                 [Catalog[k] EXCEPT !.name = new[i].name]
                   = [n \in DOMAIN Catalog[k] |-> new[i][n]]

\* C22: a step of create_or_update_assistant, get_assistant or list_assistants
\* called with organisation id A leaves the rows of every other organisation's
\* file as they are, and changes the global file only by adding catalog rows
\* under names that were absent.
C22_OtherStoresUntouched ==
  [][\A A \in OrgIds :
       (Acting.org_id = A
          /\ Acting.op \in {"create_or_update_assistant", "get_assistant", "list_assistants"})
       => /\ \A B \in OrgIds \ {A} :
               rows'[get_assistants_sqlite_file(B)] = rows[get_assistants_sqlite_file(B)]
          /\ OnlyCatalogInserts(get_assistants_sqlite_file(None))
    ]_vars

\* create_or_update_assistant with organisation id 2 has returned its new row's
\* id; its seeder added the catalog name a caller's update had removed from the
\* global file, as row 4, and the file of organisation 1 holds a row
C22_Witness ==
  /\ Ended("create_or_update_assistant") /\ last.org_id = 2
  /\ last.ret.outcome = "return" /\ last.assistant_id = None
  /\ rows[get_assistants_sqlite_file(1)] # <<>>
  /\ rows[get_assistants_sqlite_file(2)] # <<>>
  /\ \E i \in 1..Len(rows[get_assistants_sqlite_file(None)]) :
       /\ rows[get_assistants_sqlite_file(None)][i].name = "General Q&A"
       /\ rows[get_assistants_sqlite_file(None)][i].id = 4

\* C23: whenever no caller runs a call, no connection is open.
C23_NoConnectionLeft == (\A c \in Callers : proc[c].pc = "idle") => connections = 0

\* create_or_update_assistant has raised IntegrityError out of its with block, on
\* a name the file already holds, no caller runs a call and no connection is open
C23_Witness ==
  /\ Ended("create_or_update_assistant") /\ DuplicateName(last) /\ last.ret.at = "execute"
  /\ \A c \in Callers : proc[c].pc = "idle"
  /\ connections = 0

\* the call that has just ended was an UPDATE that overlapped another caller's
\* UPDATE of the same id in the same file
RacedUpdateEnded ==
  /\ Ended("create_or_update_assistant") /\ last.assistant_id # None
  /\ \E c \in Callers : proc[c].pc = "idle" /\ raced[c]

\* C24: when an UPDATE that overlapped another caller's UPDATE of the same id in
\* the same file ends, for a row the file holds and a name no other row of the
\* file carries, it has returned, and the row carries all the fields of this
\* call, the last to commit: its six parameters and its updated_at.
C24_LastWriterWins ==
  LET path == get_assistants_sqlite_file(last.org_id)
      row == RowOf(rows[path], last.assistant_id)
  IN  (/\ RacedUpdateEnded
       /\ last.assistant_id \in Ids(rows[path])
       /\ ~UpdateViolatesUnique(rows[path], last.assistant_id, last.params.name))
      => /\ last.ret.outcome = "return"
         /\ [n \in DOMAIN last.params |-> row[n]] = last.params
         /\ row.updated_at = last.ts

\* two overlapping UPDATEs of row 1 of the global file have both returned; the
\* one that committed first had read the later clock value, and the row carries
\* the parameters and the earlier updated_at of the one that committed last
C24_Witness ==
  LET path == get_assistants_sqlite_file(None)
  IN  /\ RacedUpdateEnded /\ last.ret.outcome = "return"
      /\ last.org_id = None /\ last.assistant_id = 1 /\ calls = 2
      /\ \A c \in Callers : proc[c].pc = "idle"
      /\ prior[path][1].updated /\ prior[path][1].updated_at = 1
      /\ last.ts = 0
      /\ RowOf(rows[path], 1).updated_at = 0
      /\ RowOf(rows[path], 1).type = last.params.type

====
